---- MODULE Spec2Model ----
(***************************************************************************)
(* Auth0 login for a Rocket application (src/src/main.rs): certificate     *)
(* provisioning at boot, the /auth0 redirect, the /callback handler        *)
(* (state check, token exchange, JWT validation, get-or-create user,       *)
(* session write) and the User request guard, over one sled store.         *)
(*                                                                         *)
(* Conventions.  An Option<T> is a record [some, v].  A Result is a record *)
(* with a tag.  A panic (unwrap/expect on Err or None) is the outcome      *)
(* "Panic".  Stored values are byte sequences: the bincode encodings of   *)
(* the structs.  Store keys are strings, built by concatenation.           *)
(***************************************************************************)
EXTENDS Integers, Sequences, FiniteSets, TLC

\* ------------------------------------------------------------------ bounds

\* The clock (Utc::now().timestamp()) runs over 0..MaxTime.
MaxTime == 2

\* At most this many requests are started in one behaviour.
MaxRequests == 4

\* ------------------------------------------------------- configuration data

\* The request-handling threads: as many callbacks can be in flight at once.
Workers == {"w1", "w2"}

\* AuthSettings (Rocket.toml): client_id and auth0_domain.
client_id == "client123"
auth0_domain == "example.auth"

\* The values random_state_string can produce (two that differ only in case).
StateStrings == {"aB3xY9q", "ab3xy9q"}

None == [some |-> FALSE, v |-> ""]
Some(x) == [some |-> TRUE, v |-> x]

\* -------------------------------------------------------------- JSON values

\* serde_json::Value, as far as from_json looks at it: a string, a number,
\* or no such member.
JStr(s) == [t |-> "str", s |-> s, i |-> 0]
JInt(n) == [t |-> "int", s |-> "", i |-> n]
JAbsent == [t |-> "absent", s |-> "", i |-> 0]

\* Value::as_str and Value::as_i64: Some only for a value of that type.
as_str(v) == IF v.t = "str" THEN Some(v.s) ELSE None
as_i64(v) == IF v.t = "int" THEN [some |-> TRUE, v |-> v.i] ELSE [some |-> FALSE, v |-> 0]

\* ------------------------------------------------------------------ tokens

\* An ID token as the provider returns it: the raw string, whether its
\* RS256 signature verifies under the provisioned key, and its claims.  The
\* raw string spells out the claims and the signature, so two tokens that
\* differ anywhere differ in their raw strings.
JTag(v) == IF v.t = "str" THEN v.s ELSE IF v.t = "int" THEN ToString(v.i) ELSE "-"
Jwt(sig, email, user_id, exp, iss, aud) ==
    [raw |-> "jwt(" \o JTag(email) \o "," \o JTag(user_id) \o "," \o JTag(exp) \o ","
               \o JTag(iss) \o "," \o JTag(aud) \o ")." \o (IF sig THEN "sig" ELSE "forged"),
     sig |-> sig,
     json |-> [email |-> email, user_id |-> user_id, exp |-> exp, iss |-> iss, aud |-> aud]]

GoodIss == "https://example.auth/"
EvilIss == "https://evil.auth/"

GoodJwt(email, user_id, exp) ==
    Jwt(TRUE, JStr(email), JStr(user_id), JInt(exp), JStr(GoodIss), JStr(client_id))

\* Tokens the validator accepts while they are fresh: for one user, two
\* with different emails and one with a later expiry, and one for another
\* user.
ValidTokens ==
    {GoodJwt("a@x", "u1", 1), GoodJwt("b@x", "u1", 1),
     GoodJwt("a@x", "u1", 2), GoodJwt("c@x", "u2", 2)}

\* Tokens with something wrong: a bad signature (on a token that expires
\* early), a wrong audience together with a wrong issuer, a wrong issuer
\* alone, a missing claim, a claim of the wrong JSON type.
InvalidTokens ==
    {Jwt(FALSE, JStr("a@x"), JStr("u1"), JInt(1), JStr(GoodIss), JStr(client_id)),
     Jwt(TRUE, JStr("a@x"), JStr("u1"), JInt(1), JStr(EvilIss), JStr("other")),
     Jwt(TRUE, JStr("a@x"), JStr("u1"), JInt(2), JStr(EvilIss), JStr(client_id)),
     Jwt(TRUE, JAbsent, JStr("u1"), JInt(2), JStr(GoodIss), JStr(client_id)),
     Jwt(TRUE, JStr("a@x"), JStr("u1"), JStr("soon"), JStr(GoodIss), JStr(client_id))}

\* The tokens the token endpoint hands out in the model.
Tokens == ValidTokens \cup InvalidTokens
RawTokens == {t.raw : t \in Tokens}

\* The tokens the validator is tried on by itself: every combination of
\* signature, expiry (each clock value, a string, absent), issuer, audience
\* and email (a string, a number, absent).
JwtInputs ==
    {Jwt(sig, email, JStr("u1"), exp, JStr(iss), JStr(aud)) :
        sig \in BOOLEAN, email \in {JStr("a@x"), JInt(42), JAbsent},
        exp \in {JInt(e) : e \in 0..MaxTime} \cup {JStr("soon"), JAbsent},
        iss \in {GoodIss, EvilIss}, aud \in {client_id, "other"}}

AllTokens == Tokens \cup JwtInputs
AllRaw == {t.raw : t \in AllTokens}
JwtTable == [r \in AllRaw |-> CHOOSE t \in AllTokens : t.raw = r]
JwtOf(raw) == JwtTable[raw]

UserIds == {"u1", "u2"}

\* ---------------------------------------------------------- pure functions

\* keyz::make_key!: the parts, concatenated.
make_key(prefix, id) == prefix \o id

\* crypto_hash::hex_digest(SHA256, bytes): modelled as an injective function
\* of the bytes (no two of the model's strings collide).
hex_digest(bytes) == "sha256(" \o bytes \o ")"

NoPayload == [email |-> "", user_id |-> "", exp |-> 0, iss |-> "", aud |-> ""]
NoUser == [user_id |-> "", email |-> ""]
NoSession == [user_id |-> "", expires |-> 0, raw_jwt |-> <<>>]

\* ------------------------------------------------------- bytes and bincode

\* A stored value is a sequence of bytes (0..255).  The text of a String is
\* its UTF-8 bytes.  Chr[c + 1] is the text of the code point c < 128; a
\* control character, the quote, the backslash and the grave accent are
\* written as escapes (\u{hex}).
Chr ==
    <<"\\0", "\\u{1}", "\\u{2}", "\\u{3}", "\\u{4}", "\\u{5}", "\\u{6}", "\\u{7}",
       "\\u{8}", "\\t", "\\n", "\\u{b}", "\\u{c}", "\\r", "\\u{e}", "\\u{f}",
       "\\u{10}", "\\u{11}", "\\u{12}", "\\u{13}", "\\u{14}", "\\u{15}", "\\u{16}", "\\u{17}",
       "\\u{18}", "\\u{19}", "\\u{1a}", "\\u{1b}", "\\u{1c}", "\\u{1d}", "\\u{1e}", "\\u{1f}",
       " ", "!", "\\u{22}", "#", "$", "%", "&", "'",
       "(", ")", "*", "+", ",", "-", ".", "/",
       "0", "1", "2", "3", "4", "5", "6", "7",
       "8", "9", ":", ";", "<", "=", ">", "?",
       "@", "A", "B", "C", "D", "E", "F", "G",
       "H", "I", "J", "K", "L", "M", "N", "O",
       "P", "Q", "R", "S", "T", "U", "V", "W",
       "X", "Y", "Z", "[", "\\u{5c}", "]", "^", "_",
       "\\u{60}", "a", "b", "c", "d", "e", "f", "g",
       "h", "i", "j", "k", "l", "m", "n", "o",
       "p", "q", "r", "s", "t", "u", "v", "w",
       "x", "y", "z", "{", "|", "}", "~", "\\u{7f}">>

\* The UTF-8 bytes of the model's strings: of the pieces they are made of,
\* and of the raw tokens, made of those pieces as Jwt makes them.
Utf8Atoms(s) ==
    CASE s = "" -> <<>>
      [] s = "u1" -> <<117, 49>>
      [] s = "u2" -> <<117, 50>>
      [] s = "a@x" -> <<97, 64, 120>>
      [] s = "b@x" -> <<98, 64, 120>>
      [] s = "c@x" -> <<99, 64, 120>>
      [] s = "old" -> <<111, 108, 100>>
      [] s = "garbage" -> <<103, 97, 114, 98, 97, 103, 101>>
      [] s = "pem_pk" -> <<112, 101, 109, 95, 112, 107>>
      [] s = "der_pk" -> <<100, 101, 114, 95, 112, 107>>
      [] s = "der_cert" -> <<100, 101, 114, 95, 99, 101, 114, 116>>
      [] s = "jwt(" -> <<106, 119, 116, 40>>
      [] s = "," -> <<44>>
      [] s = ")." -> <<41, 46>>
      [] s = "sig" -> <<115, 105, 103>>
      [] s = "forged" -> <<102, 111, 114, 103, 101, 100>>
      [] s = "-" -> <<45>>
      [] s = "soon" -> <<115, 111, 111, 110>>
      [] s = "42" -> <<52, 50>>
      [] s = "0" -> <<48>>
      [] s = "1" -> <<49>>
      [] s = "2" -> <<50>>
      [] s = "3" -> <<51>>
      [] s = "4" -> <<52>>
      [] s = "https://example.auth/" -> <<104, 116, 116, 112, 115, 58, 47, 47, 101, 120, 97, 109, 112, 108, 101, 46, 97, 117, 116, 104, 47>>
      [] s = "https://evil.auth/" -> <<104, 116, 116, 112, 115, 58, 47, 47, 101, 118, 105, 108, 46, 97, 117, 116, 104, 47>>
      [] s = "client123" -> <<99, 108, 105, 101, 110, 116, 49, 50, 51>>
      [] s = "other" -> <<111, 116, 104, 101, 114>>
      [] s = "é" -> <<195, 169>>
      [] s = "€" -> <<226, 130, 172>>

\* The bytes of an id_token: its five claims and its signature, as the
\* text the model writes a token as.
JwtUtf8(r) ==
    LET j == JwtOf(r).json IN
    Utf8Atoms("jwt(") \o Utf8Atoms(JTag(j.email)) \o Utf8Atoms(",")
      \o Utf8Atoms(JTag(j.user_id)) \o Utf8Atoms(",")
      \o Utf8Atoms(JTag(j.exp)) \o Utf8Atoms(",")
      \o Utf8Atoms(JTag(j.iss)) \o Utf8Atoms(",")
      \o Utf8Atoms(JTag(j.aud)) \o Utf8Atoms(").")
      \o Utf8Atoms(IF JwtOf(r).sig THEN "sig" ELSE "forged")

\* str::as_bytes.
Utf8(s) == IF s \in AllRaw THEN JwtUtf8(s) ELSE Utf8Atoms(s)

\* The element of a one-element set.  A reader's result is bound as the
\* element of such a set, so that the next reader starts from its value.
The(S) == CHOOSE x \in S : TRUE

\* The text of the code points 160..255: Latin1[c - 159].
Latin1 ==
    <<"\\u{a0}", "¡", "¢", "£", "¤", "¥", "¦", "§",
       "¨", "©", "ª", "«", "¬", "\\u{ad}", "®", "¯",
       "°", "±", "²", "³", "´", "µ", "¶", "·",
       "¸", "¹", "º", "»", "¼", "½", "¾", "¿",
       "À", "Á", "Â", "Ã", "Ä", "Å", "Æ", "Ç",
       "È", "É", "Ê", "Ë", "Ì", "Í", "Î", "Ï",
       "Ð", "Ñ", "Ò", "Ó", "Ô", "Õ", "Ö", "×",
       "Ø", "Ù", "Ú", "Û", "Ü", "Ý", "Þ", "ß",
       "à", "á", "â", "ã", "ä", "å", "æ", "ç",
       "è", "é", "ê", "ë", "ì", "í", "î", "ï",
       "ð", "ñ", "ò", "ó", "ô", "õ", "ö", "÷",
       "ø", "ù", "ú", "û", "ü", "ý", "þ", "ÿ">>

\* A number in hexadecimal, as an escape writes it.
HexDigit == <<"0", "1", "2", "3", "4", "5", "6", "7",
              "8", "9", "a", "b", "c", "d", "e", "f">>
RECURSIVE HexOf(_)
HexOf(n) == IF n < 16 THEN HexDigit[n + 1] ELSE HexOf(n \div 16) \o HexDigit[(n % 16) + 1]

\* The text of a code point; one outside the tables is written as an escape.
CharOf(cp) ==
    IF cp < 128 THEN Chr[cp + 1]
    ELSE IF cp >= 160 /\ cp <= 255 THEN Latin1[cp - 159]
    ELSE IF cp = 8364 THEN "€"
    ELSE "\\u{" \o HexOf(cp) \o "}"

\* UTF-8: the number of bytes of the sequence a byte starts (0: the byte
\* starts none), and whether b is a continuation byte.
Utf8Width(b) ==
    IF b < 128 THEN 1
    ELSE IF b >= 194 /\ b <= 223 THEN 2
    ELSE IF b >= 224 /\ b <= 239 THEN 3
    ELSE IF b >= 240 /\ b <= 244 THEN 4
    ELSE 0
Cont(b) == b >= 128 /\ b <= 191

\* A sequence of Utf8Width(q[1]) bytes is well formed: continuation bytes
\* follow, and the second byte rules out overlong forms, surrogates and
\* code points past 10FFFF.
WellFormed(q) ==
    /\ \A i \in 2..Len(q) : Cont(q[i])
    /\ q[1] = 224 => q[2] >= 160
    /\ q[1] = 237 => q[2] <= 159
    /\ q[1] = 240 => q[2] >= 144
    /\ q[1] = 244 => q[2] <= 143

\* The code point a well-formed sequence encodes.
CodePoint(q) ==
    CASE Len(q) = 1 -> q[1]
      [] Len(q) = 2 -> (q[1] - 192) * 64 + (q[2] - 128)
      [] Len(q) = 3 -> (q[1] - 224) * 4096 + (q[2] - 128) * 64 + (q[3] - 128)
      [] Len(q) = 4 -> (q[1] - 240) * 262144 + (q[2] - 128) * 4096
                         + (q[3] - 128) * 64 + (q[4] - 128)

\* The sequence of bytes that starts at position i of the buffer.
Utf8Seq(bytes, i) == SubSeq(bytes, i, i + Utf8Width(bytes[i]) - 1)

\* The positions where a sequence starts, in order: in valid UTF-8, those
\* of the bytes that are no continuation bytes.
Leads(bytes) == SelectSeq([i \in 1..Len(bytes) |-> i], LAMBDA i : ~Cont(bytes[i]))

\* The bytes are valid UTF-8: every sequence that starts is complete and
\* well formed, and every continuation byte belongs to one.
ValidUtf8(bytes) ==
    /\ \A i \in 1..Len(bytes) :
          ~Cont(bytes[i]) =>
              /\ Utf8Width(bytes[i]) # 0
              /\ i + Utf8Width(bytes[i]) - 1 <= Len(bytes)
              /\ WellFormed(Utf8Seq(bytes, i))
    /\ \A i \in 1..Len(bytes) :
          Cont(bytes[i]) =>
              \E j \in 1..(i - 1) :
                  ~Cont(bytes[j]) /\ j + Utf8Width(bytes[j]) - 1 >= i

\* The text of the sequences that start at the positions leads[lo..hi].
RECURSIVE Text(_, _, _, _)
Text(bytes, leads, lo, hi) ==
    IF lo > hi THEN ""
    ELSE IF lo = hi THEN CharOf(CodePoint(Utf8Seq(bytes, leads[lo])))
    ELSE Text(bytes, leads, lo, (lo + hi) \div 2)
           \o Text(bytes, leads, ((lo + hi) \div 2) + 1, hi)

\* String::from_utf8: the text of the bytes, or an error when they are not
\* valid UTF-8.
FromUtf8(bytes) ==
    IF ~ValidUtf8(bytes) THEN [ok |-> FALSE, v |-> ""]
    ELSE [ok |-> TRUE, v |-> Text(bytes, Leads(bytes), 1, Len(Leads(bytes)))]

\* An i64 of the program is an integer of the model when it lies in
\* -2^31 .. 2^31 - 1, and its decimal numeral, a string ("1099511627776",
\* "-2147483649"), when it lies beyond: the integers of the model end there.
Digit == <<"0", "1", "2", "3", "4", "5", "6", "7", "8", "9">>
DigitOf(c) == CHOOSE d \in 0..9 : Digit[d + 1] = c
IsWide(n) == Head(ToString(n)) \notin {Digit[d] : d \in 1..10} \cup {"-"}

\* i64 comparison with a clock value t, which is an integer of the model:
\* a numeral beyond the integers is below t when negative and above it
\* otherwise.
Leq(a, t) == IF IsWide(a) THEN Head(a) = "-" ELSE a <= t
Lt(a, t) == IF IsWide(a) THEN Head(a) = "-" ELSE a < t

\* The two's complement of a little-endian byte sequence: every byte
\* inverted, then one added (c is the carry into byte i).
RECURSIVE Negate(_, _, _)
Negate(w, i, c) ==
    IF i > Len(w) THEN <<>>
    ELSE <<(255 - w[i] + c) % 256>> \o Negate(w, i + 1, (255 - w[i] + c) \div 256)

\* Decimal digits, least significant first, of 256 * ds + carry.
RECURSIVE MulAdd(_, _, _)
MulAdd(ds, i, carry) ==
    IF i > Len(ds) THEN <<>>
    ELSE <<(ds[i] * 256 + carry) % 10>> \o MulAdd(ds, i + 1, (ds[i] * 256 + carry) \div 10)
\* The twenty decimal digits, least significant first, of the unsigned
\* little-endian bytes w[k..].
RECURSIVE Decimal(_, _)
Decimal(w, k) ==
    IF k > Len(w) THEN [i \in 1..20 |-> 0]
    ELSE The({MulAdd(ds, 1, w[k]) : ds \in {Decimal(w, k + 1)}})
\* The numeral of the digits ds[1..i], most significant first.
RECURSIVE Numeral(_, _)
Numeral(ds, i) == IF i = 0 THEN "" ELSE Digit[ds[i] + 1] \o Numeral(ds, i - 1)
\* The decimal numeral of the unsigned little-endian bytes w (not all 0).
Unsigned(w) ==
    The({Numeral(ds, CHOOSE i \in 1..20 : ds[i] # 0 /\ \A j \in (i + 1)..20 : ds[j] = 0)
         : ds \in {Decimal(w, 1)}})

\* Division by 256 of the number with decimal digits ds, most significant
\* first: the remainder of ds[1..i], and the digits of the quotient.
RECURSIVE Rem256(_, _)
Rem256(ds, i) == IF i = 0 THEN 0 ELSE (Rem256(ds, i - 1) * 10 + ds[i]) % 256
Quot256(ds) == [i \in 1..Len(ds) |-> (Rem256(ds, i - 1) * 10 + ds[i]) \div 256]
\* The k low bytes, little-endian, of the number with decimal digits ds.
RECURSIVE Base256(_, _)
Base256(ds, k) ==
    IF k = 0 THEN <<>>
    ELSE <<Rem256(ds, Len(ds))>> \o The({Base256(q, k - 1) : q \in {Quot256(ds)}})
\* The eight bytes of an i64 given by its numeral.
WideBytes(s) ==
    IF Head(s) = "-"
    THEN Negate(The({Base256(ds, 8)
                     : ds \in {[i \in 1..(Len(s) - 1) |-> DigitOf(SubSeq(s, i + 1, i + 1))]}}),
                1, 1)
    ELSE The({Base256(ds, 8) : ds \in {[i \in 1..Len(s) |-> DigitOf(SubSeq(s, i, i))]}})

\* bincode's fixed-width little-endian integer: 8 bytes, two's complement.
I64Bytes(n) ==
    IF IsWide(n) THEN WideBytes(n)
    ELSE <<n % 256, (n \div 256) % 256, (n \div 65536) % 256, (n \div 16777216) % 256>>
           \o (IF n < 0 THEN <<255, 255, 255, 255>> ELSE <<0, 0, 0, 0>>)

\* Reading at position pos of a buffer: ok, the value, and the next
\* position.  Eight bytes as an i64; a read past the end fails.
ReadI64(bytes, pos) ==
    IF pos + 7 > Len(bytes) THEN [ok |-> FALSE, v |-> 0, next |-> pos]
    ELSE The({[ok |-> TRUE,
               v |-> IF w[8] >= 128
                     THEN IF {w[5], w[6], w[7], w[8]} = {255} /\ w[4] >= 128
                          THEN w[1] + 256 * w[2] + 65536 * w[3] + 16777216 * (w[4] - 256)
                          ELSE "-" \o Unsigned(Negate(w, 1, 1))
                     ELSE IF {w[5], w[6], w[7], w[8]} = {0} /\ w[4] < 128
                          THEN w[1] + 256 * w[2] + 65536 * w[3] + 16777216 * w[4]
                          ELSE Unsigned(w),
               next |-> pos + 8]
              : w \in {SubSeq(bytes, pos, pos + 7)}})

\* A byte sequence (Vec<u8>): a u64 length, then that many bytes.  A
\* length beyond the integers of the model is beyond the buffer.
ReadVec(bytes, pos) ==
    The({IF ~n.ok \/ IsWide(n.v) \/ n.v < 0 \/ n.v > Len(bytes) - (n.next - 1)
         THEN [ok |-> FALSE, v |-> <<>>, next |-> pos]
         ELSE [ok |-> TRUE, v |-> SubSeq(bytes, n.next, n.next + n.v - 1),
               next |-> n.next + n.v]
         : n \in {ReadI64(bytes, pos)}})

\* A String: a byte sequence that is valid UTF-8.
ReadString(bytes, pos) ==
    The({IF ~r.ok THEN [ok |-> FALSE, v |-> "", next |-> pos]
         ELSE The({IF t.ok THEN [ok |-> TRUE, v |-> t.v, next |-> r.next]
                   ELSE [ok |-> FALSE, v |-> "", next |-> pos]
                   : t \in {FromUtf8(r.v)}})
         : r \in {ReadVec(bytes, pos)}})

\* bincode::serialize / deserialize of User {user_id, email}; deserialize
\* leaves bytes after the last field unread.
serialize_user(u) ==
    I64Bytes(Len(Utf8(u.user_id))) \o Utf8(u.user_id)
      \o I64Bytes(Len(Utf8(u.email))) \o Utf8(u.email)
deserialize_user(bytes) ==
    The({The({IF id.ok /\ em.ok
              THEN [ok |-> TRUE, v |-> [user_id |-> id.v, email |-> em.v]]
              ELSE [ok |-> FALSE, v |-> NoUser]
              : em \in {ReadString(bytes, id.next)}})
         : id \in {ReadString(bytes, 1)}})

\* bincode::serialize / deserialize of Session {user_id, expires, raw_jwt}.
serialize_session(s) ==
    I64Bytes(Len(Utf8(s.user_id))) \o Utf8(s.user_id) \o I64Bytes(s.expires)
      \o I64Bytes(Len(s.raw_jwt)) \o s.raw_jwt
deserialize_session(bytes) ==
    The({The({The({IF id.ok /\ ex.ok /\ rj.ok
                   THEN [ok |-> TRUE,
                         v |-> [user_id |-> id.v, expires |-> ex.v, raw_jwt |-> rj.v]]
                   ELSE [ok |-> FALSE, v |-> NoSession]
                   : rj \in {ReadVec(bytes, ex.next)}})
              : ex \in {ReadI64(bytes, id.next)}})
         : id \in {ReadString(bytes, 1)}})

\* Auth0JWTPayload::from_json: MalformedJWT when a claim is missing, a panic
\* (unwrap on None) when a claim has the wrong JSON type.
from_json(json) ==
    IF \E c \in {"email", "user_id", "exp", "iss", "aud"} : json[c].t = "absent"
    THEN [tag |-> "MalformedJWT", payload |-> NoPayload]
    ELSE IF /\ as_str(json.email).some /\ as_str(json.user_id).some
            /\ as_i64(json.exp).some
            /\ as_str(json.iss).some /\ as_str(json.aud).some
    THEN [tag |-> "Ok",
          payload |-> [email |-> as_str(json.email).v,
                       user_id |-> as_str(json.user_id).v,
                       exp |-> as_i64(json.exp).v,
                       iss |-> as_str(json.iss).v,
                       aud |-> as_str(json.aud).v]]
    ELSE [tag |-> "Panic", payload |-> NoPayload]

\* frank_jwt::decode(jwt, key, RS256): the claims when the token parses and
\* its signature verifies.
decode(jwt) ==
    IF jwt \in AllRaw /\ JwtOf(jwt).sig
    THEN [ok |-> TRUE, json |-> JwtOf(jwt).json]
    ELSE [ok |-> FALSE, json |-> [c \in {"email", "user_id", "exp", "iss", "aud"} |-> JAbsent]]

\* The expiry test of decode_and_validate_jwt.
JwtExpired(exp, t) == exp < t

\* decode_and_validate_jwt(pub_key, jwt, aud, auth0_domain) at clock value t.
decode_and_validate_jwt(jwt, aud, domain, t) ==
    IF ~decode(jwt).ok THEN [tag |-> "MalformedJWT", payload |-> NoPayload]
    ELSE LET r == from_json(decode(jwt).json) IN
         IF r.tag # "Ok" THEN r
         ELSE IF JwtExpired(r.payload.exp, t) THEN [tag |-> "Expired", payload |-> NoPayload]
         ELSE IF r.payload.aud # aud THEN [tag |-> "AudienceMismatch", payload |-> NoPayload]
         ELSE IF r.payload.iss # "https://" \o domain \o "/"
              THEN [tag |-> "IssuerMismatch", payload |-> NoPayload]
         ELSE r

\* Session::expired at clock value t.
expiredMutLt(sess, t) == Lt(sess.expires, t)
expired(sess, t) == Leq(sess.expires, t)


\* The state comparison of auth0_callback: Forbidden on a cookie that differs
\* from the query parameter, BadRequest on no cookie, otherwise go on.
Lower(s) == IF s = "aB3xY9q" THEN "ab3xy9q" ELSE s
StateCheckMutCase(cookie, state_q) ==
    IF cookie.some
    THEN IF Lower(state_q) # Lower(cookie.v) THEN "Forbidden" ELSE "pass"
    ELSE "BadRequest"
StateCheckMutNoCookie(cookie, state_q) ==
    IF cookie.some
    THEN IF state_q # cookie.v THEN "Forbidden" ELSE "pass"
    ELSE "pass"
StateCheck(cookie, state_q) ==
    IF cookie.some
    THEN IF state_q # cookie.v THEN "Forbidden" ELSE "pass"
    ELSE "BadRequest"

\* Whether auth0_callback returns early after decode_and_validate_jwt: the
\* `?` on its mapped error.
RejectedMutNever(tag) == FALSE
Rejected(tag) == tag # "Ok"

\* The status auth0_callback maps a validation error to: map_err(|_| ...),
\* whatever the error.
ValidationStatus(tag) == "Unauthorized"

\* The db.get of get_or_create_user and its match: a miss yields the new
\* User to be stored, a hit the stored record, a read or decode error Err.
UserLookupMutRefresh(store, payload, io) ==
    [tag |-> IF io = "user_err" THEN "Err" ELSE "Miss",
     user |-> [user_id |-> payload.user_id, email |-> payload.email]]
UserLookupMutAssumeStored(store, payload, io) ==
    LET user_key == make_key("users/", payload.user_id) IN
    IF io = "user_err" THEN [tag |-> "Err", user |-> NoUser]
    ELSE IF user_key \notin DOMAIN store
    THEN [tag |-> "Hit", user |-> [user_id |-> payload.user_id, email |-> payload.email]]
    ELSE IF deserialize_user(store[user_key]).ok
    THEN [tag |-> "Hit", user |-> deserialize_user(store[user_key]).v]
    ELSE [tag |-> "Err", user |-> NoUser]
UserLookup(store, payload, io) ==
    LET user_key == make_key("users/", payload.user_id) IN
    IF io = "user_err" THEN [tag |-> "Err", user |-> NoUser]
    ELSE IF user_key \notin DOMAIN store
    THEN [tag |-> "Miss", user |-> [user_id |-> payload.user_id, email |-> payload.email]]
    ELSE IF deserialize_user(store[user_key]).ok
    THEN [tag |-> "Hit", user |-> deserialize_user(store[user_key]).v]
    ELSE [tag |-> "Err", user |-> NoUser]

\* The Session auth0_callback builds for a validated token.
NewSessionMutLifetime(user, payload, jwt) ==
    [user_id |-> user.user_id, expires |-> payload.exp + 1, raw_jwt |-> Utf8(jwt)]
NewSession(user, payload, jwt) ==
    [user_id |-> user.user_id, expires |-> payload.exp, raw_jwt |-> Utf8(jwt)]

\* db.set(key, value) on a store held as a function from keys to values.
Put(store, key, value) ==
    [k \in DOMAIN store \cup {key} |-> IF k = key THEN value ELSE store[k]]

\* User::from_request up to the Session: the session cookie, db.get of
\* sessions/<cookie> and deserialize.  io says whether the db.get fails.
from_request_session(cookie, store, io) ==
    IF ~cookie.some THEN [tag |-> "Forward", sess |-> NoSession]
    ELSE LET session_key == make_key("sessions/", cookie.v) IN
    IF io = "sess_err" \/ session_key \notin DOMAIN store
    THEN [tag |-> "Forward", sess |-> NoSession]
    ELSE The({IF s.ok THEN [tag |-> "Ok", sess |-> s.v]
              ELSE [tag |-> "Panic", sess |-> NoSession]
              : s \in {deserialize_session(store[session_key])}})

\* User::from_request past the expiry test: db.get of users/<the Session's
\* user_id> and deserialize.  io says whether the db.get fails.
from_request_user(sess, store, io) ==
    LET user_key == make_key("users/", sess.user_id) IN
    IF io = "user_err" \/ user_key \notin DOMAIN store
    THEN [outcome |-> "Forward", user |-> NoUser]
    ELSE The({IF u.ok THEN [outcome |-> "Success", user |-> u.v]
              ELSE [outcome |-> "Panic", user |-> NoUser]
              : u \in {deserialize_user(store[user_key])}})

\* ------------------------------------------------------------------- state

VARIABLES
    phase,       \* "boot", "serving" (launched) or "aborted" (panic at attach)
    now,         \* Utc::now().timestamp()
    db,          \* the sled store: key -> stored bytes
    cookie,      \* the browser's state cookie
    pc,          \* per worker: where the callback request it handles stands
    req,         \* per worker: the locals of that callback request
    last,        \* the request that ended most recently, and its response
    validated,   \* history: tokens decode_and_validate_jwt returned Ok for
    userWrites,  \* history: db.set calls on users/<user_id>, per user_id
    interleaved, \* history: a call of get_or_create_user did its db.get while
                 \* another stood between its db.get and its db.set
    guard,       \* the run of the User guard in flight: where it stands, its locals
    nreq         \* requests started

vars == <<phase, now, db, cookie, pc, req, last, validated, userWrites, interleaved,
         guard, nreq>>

\* The locals of a callback request in flight: the state cookie and state
\* parameter it came with and, past the user lookup, the token, the
\* validated payload, the user, and the clock value its validation read.
NoReq == [tok |-> "", payload |-> NoPayload, user |-> NoUser, cookie_in |-> None,
          state_q |-> "", at |-> 0]

\* A request's record: what it carried (cookie_in: the state cookie of a
\* callback, the session cookie of a guarded request; state_q), what its
\* environment did (exch: the outcome of the token request, "" when none was
\* sent; io: the outcome of its store operations, "" when it reached none;
\* tok: the token that reached the validator), the clock value it read, and
\* its outcome (status, the guard's user, the cookie the response sets with
\* its attributes, the validator's payload).
NoLast == [kind |-> "none", cookie_in |-> None, state_q |-> "", exch |-> "", io |-> "",
           tok |-> "", status |-> "", at |-> 0, user |-> NoUser, cookie_out |-> None,
           attrs |-> {}, payload |-> NoPayload]

\* The locals of a run of the User guard in flight: the session cookie it
\* came with, the Session it read, the clock value at that read (began)
\* and the clock value Session::expired read (at).
NoGuard == [pc |-> "idle", cookie_in |-> None, sess |-> NoSession, began |-> 0, at |-> 0]

EmptyStore == [k \in {} |-> <<>>]

Init ==
    /\ phase = "boot"
    /\ now = 0
    /\ db = EmptyStore
    /\ cookie = None
    /\ pc = [w \in Workers |-> "idle"]
    /\ req = [w \in Workers |-> NoReq]
    /\ last = NoLast
    /\ validated = {}
    /\ userWrites = [u \in UserIds |-> 0]
    /\ interleaved = FALSE
    /\ guard = NoGuard
    /\ nreq = 0

\* ------------------------------------------------------------------ actions

\* populate_certs stores the key material with three db.set calls in a row;
\* the store after the first n of them.
KeysStored(store, n) ==
    LET s1 == IF n >= 1 THEN Put(store, "jwt_pub_key_pem", Utf8("pem_pk")) ELSE store
        s2 == IF n >= 2 THEN Put(s1, "jwt_pub_key_der", Utf8("der_pk")) ELSE s1
    IN IF n >= 3 THEN Put(s2, "jwt_cert_der", Utf8("der_cert")) ELSE s2

\* The db.set calls populate_certs completes: all three, none when the
\* certificate cannot be fetched or parsed, n - 1 when the n-th fails.
SetsDone(cert) ==
    CASE cert = "ok" -> 3
      [] cert = "set3_err" -> 2
      [] cert = "set2_err" -> 1
      [] OTHER -> 0

\* main: the on_attach fairing reads the client secret and runs
\* populate_certs; either panics the process before launch, with the keys
\* written so far left in the store.  The record keeps what went wrong:
\* "no_secret" (from_env failed, populate_certs was never called) or the
\* outcome of populate_certs.
BootOutcomes == {"ok", "unreachable", "malformed", "set1_err", "set2_err", "set3_err"}
BootMutLaunchAnyway(secret, cert) ==
    /\ phase = "boot"
    /\ phase' = "serving"
    /\ db' = KeysStored(db, IF secret THEN SetsDone(cert) ELSE 0)
    /\ last' = [NoLast EXCEPT !.kind = "boot",
                              !.io = IF secret THEN cert ELSE "no_secret",
                              !.status = "launched"]
    /\ UNCHANGED <<now, cookie, pc, req, validated, userWrites, interleaved, nreq, guard>>
Boot(secret, cert) ==
    /\ phase = "boot"
    /\ phase' = IF secret /\ cert = "ok" THEN "serving" ELSE "aborted"
    /\ db' = KeysStored(db, IF secret THEN SetsDone(cert) ELSE 0)
    /\ last' = [NoLast EXCEPT !.kind = "boot",
                              !.io = IF secret THEN cert ELSE "no_secret",
                              !.status = IF secret /\ cert = "ok" THEN "launched" ELSE "Panic"]
    /\ UNCHANGED <<now, cookie, pc, req, validated, userWrites, interleaved, nreq, guard>>

\* The clock advances.
Tick ==
    /\ now < MaxTime
    /\ now' = now + 1
    /\ UNCHANGED <<phase, db, cookie, pc, req, last, validated, userWrites, interleaved, nreq, guard>>

\* GET /auth0 (auth0_redirect): a fresh state string goes into the state
\* cookie and into the authorize URL the browser is redirected to.
Auth0Redirect(state) ==
    /\ phase = "serving" /\ nreq < MaxRequests
    /\ nreq' = nreq + 1
    /\ cookie' = Some(state)
    /\ last' = [NoLast EXCEPT !.kind = "auth0", !.status = "Redirect:authorize",
                              !.at = now, !.cookie_out = Some(state)]
    /\ UNCHANGED <<phase, now, db, pc, req, validated, userWrites, interleaved, guard>>

\* The callback request of worker w ends with `rec` as its record.  When
\* `removed` (the handler got as far as cookies.remove) and `deliver` (the
\* response carries the jar's changes) the browser drops its state cookie.
Finish(w, rec, removed, deliver) ==
    /\ last' = rec
    /\ pc' = [pc EXCEPT ![w] = "idle"]
    /\ req' = [req EXCEPT ![w] = NoReq]
    /\ cookie' = IF removed /\ deliver THEN None ELSE cookie

\* What POST /oauth/token can come to: an id_token, a transport failure
\* (send().unwrap()) or a body that is no TokenResponse (json().expect()).
ExchangeOutcomes == RawTokens \cup {"!transport", "!json"}

\* Outcomes of the read of users/<user_id> in get_or_create_user.
LookupIo == {"ok", "user_err"}

\* GET /callback?code&state (auth0_callback), up to the token request: the
\* state check and cookies.remove.  A request that passes goes on to POST
\* /oauth/token and waits there while other requests run.
CallbackBegin(w, state_q) ==
    /\ phase = "serving" /\ pc[w] = "idle" /\ nreq < MaxRequests
    /\ nreq' = nreq + 1
    /\ LET rec == [NoLast EXCEPT !.kind = "callback", !.cookie_in = cookie,
                                 !.state_q = state_q, !.at = now]
           chk == StateCheck(cookie, state_q)
       IN
       IF chk # "pass"
       THEN Finish(w, [rec EXCEPT !.status = chk], FALSE, TRUE)
       ELSE /\ pc' = [pc EXCEPT ![w] = "exchange"]
            /\ req' = [req EXCEPT ![w] = [NoReq EXCEPT !.cookie_in = cookie,
                                                       !.state_q = state_q]]
            /\ UNCHANGED <<last, cookie>>
    /\ UNCHANGED <<phase, now, db, validated, userWrites, interleaved, guard>>

\* Outcomes of the read of jwt_pub_key_pem.  (A read that finds no value
\* fails the same way: unwrap on None.)
KeyIo == {"ok", "pk_err"}

\* auth0_callback from the answer to the token request up to the result of
\* decode_and_validate_jwt: the outcome `exch` of the request, the read of
\* the key (`io`), and the validation of the ID token, which reads the
\* clock.  `fw` is whether the framework sends the jar's changes along with
\* an error status.  A request whose token validates goes on to
\* get_or_create_user while other requests run and the clock advances.
CallbackExchange(w, exch, io) ==
    /\ pc[w] = "exchange"
    /\ LET rec == [NoLast EXCEPT !.kind = "callback", !.cookie_in = req[w].cookie_in,
                                 !.state_q = req[w].state_q, !.at = now]
           v == decode_and_validate_jwt(exch, client_id, auth0_domain, now)
       IN
       IF exch \notin RawTokens
       THEN /\ Finish(w, [rec EXCEPT !.exch = exch, !.status = "Panic"], TRUE, FALSE)
            /\ UNCHANGED validated
       ELSE IF io = "pk_err" \/ "jwt_pub_key_pem" \notin DOMAIN db
       THEN /\ Finish(w, [rec EXCEPT !.exch = exch, !.io = "pk_err", !.status = "Panic"],
                      TRUE, FALSE)
            /\ UNCHANGED validated
       ELSE IF v.tag = "Panic"
       THEN /\ Finish(w, [rec EXCEPT !.exch = exch, !.io = "ok", !.tok = exch,
                                     !.status = "Panic"], TRUE, FALSE)
            /\ UNCHANGED validated
       ELSE IF Rejected(v.tag)
       THEN /\ \E fw \in BOOLEAN :
                   Finish(w, [rec EXCEPT !.exch = exch, !.io = "ok", !.tok = exch,
                                         !.status = ValidationStatus(v.tag)],
                          TRUE, fw)
            /\ UNCHANGED validated
       ELSE /\ validated' = IF v.tag = "Ok" THEN validated \cup {exch} ELSE validated
            /\ pc' = [pc EXCEPT ![w] = "lookup"]
            /\ req' = [req EXCEPT ![w] = [tok |-> exch, payload |-> v.payload,
                                          user |-> NoUser,
                                          cookie_in |-> req[w].cookie_in,
                                          state_q |-> req[w].state_q, at |-> now]]
            /\ UNCHANGED <<last, cookie>>
    /\ UNCHANGED <<phase, now, db, userWrites, interleaved, nreq, guard>>

\* The record of the callback request worker w has in flight: its token
\* request returned the token, and `io` is how its store operations went.
CallbackRec(w, io) ==
    [NoLast EXCEPT !.kind = "callback", !.cookie_in = req[w].cookie_in,
                   !.state_q = req[w].state_q, !.exch = req[w].tok, !.io = io,
                   !.tok = req[w].tok, !.at = req[w].at]

\* get_or_create_user up to its match: db.get(users/<user_id>) and, in the
\* Some arm, deserialize.  `io` is the outcome of the read; an error ends
\* the request with InternalServerError.
CallbackLookup(w, io) ==
    /\ pc[w] = "lookup"
    /\ interleaved' = (interleaved \/ \E o \in Workers : pc[o] = "user_set")
    /\ LET l == UserLookup(db, req[w].payload, io) IN
       IF l.tag = "Err"
       THEN \E fw \in BOOLEAN :
              Finish(w, [CallbackRec(w, "user_err") EXCEPT !.status = "InternalServerError"],
                     TRUE, fw)
       ELSE /\ pc' = [pc EXCEPT ![w] = IF l.tag = "Miss" THEN "user_set"
                                        ELSE "session_set"]
            /\ req' = [req EXCEPT ![w].user = l.user]
            /\ UNCHANGED <<last, cookie>>
    /\ UNCHANGED <<phase, now, db, validated, userWrites, nreq, guard>>

\* get_or_create_user, the None arm: db.set(user_key, encoded_user).unwrap().
UserSet(w, io) ==
    /\ pc[w] = "user_set"
    /\ IF io = "ok"
       THEN /\ db' = Put(db, make_key("users/", req[w].user.user_id),
                         serialize_user(req[w].user))
            /\ userWrites' = [userWrites EXCEPT ![req[w].user.user_id] = @ + 1]
            /\ pc' = [pc EXCEPT ![w] = "session_set"]
            /\ UNCHANGED <<req, last, cookie>>
       ELSE /\ Finish(w, [CallbackRec(w, "set_err") EXCEPT !.status = "Panic"], TRUE, FALSE)
            /\ UNCHANGED <<db, userWrites>>
    /\ UNCHANGED <<phase, now, validated, interleaved, nreq, guard>>

\* auth0_callback, the rest: the Session is stored under the digest of the
\* token, the session cookie is added and the browser is redirected.
SessionSetMutRawCookie(w, io) ==
    /\ pc[w] = "session_set"
    /\ LET jwt == req[w].tok
           hashed_jwt == hex_digest(jwt)
           new_session == NewSession(req[w].user, req[w].payload, jwt)
       IN
       IF io = "ok"
       THEN /\ db' = Put(db, make_key("sessions/", hashed_jwt), serialize_session(new_session))
            /\ Finish(w, [CallbackRec(w, "ok") EXCEPT !.status = "Redirect:/loggedin",
                                                !.user = req[w].user,
                                                !.cookie_out = Some(jwt),
                                                !.attrs = {"Secure", "HttpOnly", "Path=/"}],
                      TRUE, TRUE)
       ELSE /\ Finish(w, [CallbackRec(w, "set_err") EXCEPT !.status = "Panic"], TRUE, FALSE)
            /\ UNCHANGED db
    /\ UNCHANGED <<phase, now, validated, userWrites, interleaved, nreq, guard>>
SessionSet(w, io) ==
    /\ pc[w] = "session_set"
    /\ LET jwt == req[w].tok
           hashed_jwt == hex_digest(jwt)
           new_session == NewSession(req[w].user, req[w].payload, jwt)
       IN
       IF io = "ok"
       THEN /\ db' = Put(db, make_key("sessions/", hashed_jwt), serialize_session(new_session))
            /\ Finish(w, [CallbackRec(w, "ok") EXCEPT !.status = "Redirect:/loggedin",
                                                !.user = req[w].user,
                                                !.cookie_out = Some(hashed_jwt),
                                                !.attrs = {"Secure", "HttpOnly", "Path=/"}],
                      TRUE, TRUE)
       ELSE /\ Finish(w, [CallbackRec(w, "set_err") EXCEPT !.status = "Panic"], TRUE, FALSE)
            /\ UNCHANGED db
    /\ UNCHANGED <<phase, now, validated, userWrites, interleaved, nreq, guard>>

\* The session cookie values a request may carry: none, the digest of a
\* token validation can accept, or a string that is no digest of one.
SessionCookies == {None, Some("deadbeef")} \cup {Some(hex_digest(t.raw)) : t \in ValidTokens}

\* Outcomes of the guard's two store reads.
GuardSessionIo == {"ok", "sess_err"}
GuardUserIo == {"ok", "user_err"}

\* The record of a run of the guard that ends.
GuardRec(c, io, status, at, user) ==
    [NoLast EXCEPT !.kind = "guard", !.cookie_in = c, !.io = io,
                   !.status = status, !.at = at, !.user = user]

\* A request to a route guarded by User (GET /), from any client: the
\* guard runs.  It reads no state cookie and sets no cookie.  Its three
\* reads (the Session, the clock, the User) are separate steps: other
\* requests run and the clock advances between them.  A guard writes
\* nothing, so one run in flight at a time shows every outcome a run can
\* have among concurrent ones.
\*
\* from_request up to the Session: it ends at once when there is no cookie,
\* no Session under the key, or the bytes are no Session.
GuardBegin(c, io) ==
    /\ phase = "serving" /\ guard.pc = "idle" /\ nreq < MaxRequests
    /\ nreq' = nreq + 1
    /\ LET r == from_request_session(c, db, io) IN
       IF r.tag # "Ok"
       THEN /\ last' = GuardRec(c, io, r.tag, now, NoUser)
            /\ UNCHANGED guard
       ELSE /\ guard' = [pc |-> "clock", cookie_in |-> c, sess |-> r.sess,
                         began |-> now, at |-> 0]
            /\ UNCHANGED last
    /\ UNCHANGED <<phase, now, db, cookie, pc, req, validated, userWrites, interleaved>>

\* sess.expired(): the clock read and the comparison.
GuardClockMutEvict ==
    /\ guard.pc = "clock"
    /\ IF expired(guard.sess, now)
       THEN /\ last' = GuardRec(guard.cookie_in, "ok", "Forward", now, NoUser)
            /\ guard' = NoGuard
            /\ db' = [k \in DOMAIN db \ {make_key("sessions/", guard.cookie_in.v)} |-> db[k]]
       ELSE /\ guard' = [guard EXCEPT !.pc = "user", !.at = now]
            /\ UNCHANGED <<last, db>>
    /\ UNCHANGED <<phase, now, cookie, pc, req, validated, userWrites, interleaved, nreq>>
GuardClock ==
    /\ guard.pc = "clock"
    /\ IF expired(guard.sess, now)
       THEN /\ last' = GuardRec(guard.cookie_in, "ok", "Forward", now, NoUser)
            /\ guard' = NoGuard
       ELSE /\ guard' = [guard EXCEPT !.pc = "user", !.at = now]
            /\ UNCHANGED last
    /\ UNCHANGED <<phase, now, db, cookie, pc, req, validated, userWrites, interleaved, nreq>>

\* from_request from the db.get of users/<user_id> to its result.
GuardUser(io) ==
    /\ guard.pc = "user"
    /\ LET r == from_request_user(guard.sess, db, io) IN
       last' = GuardRec(guard.cookie_in, io, r.outcome, guard.at, r.user)
    /\ guard' = NoGuard
    /\ UNCHANGED <<phase, now, db, cookie, pc, req, validated, userWrites, interleaved, nreq>>

Next ==
    \/ \E secret \in BOOLEAN, cert \in BootOutcomes : Boot(secret, cert)
    \/ Tick
    \/ \E s \in StateStrings : Auth0Redirect(s)
    \/ \E w \in Workers, s \in StateStrings : CallbackBegin(w, s)
    \/ \E w \in Workers, exch \in ExchangeOutcomes, io \in KeyIo :
          CallbackExchange(w, exch, io)
    \/ \E w \in Workers, io \in LookupIo : CallbackLookup(w, io)
    \/ \E w \in Workers, io \in {"ok", "err"} : UserSet(w, io)
    \/ \E w \in Workers, io \in {"ok", "err"} : SessionSet(w, io)
    \/ \E c \in SessionCookies, io \in GuardSessionIo : GuardBegin(c, io)
    \/ GuardClock
    \/ \E io \in GuardUserIo : GuardUser(io)

Spec == Init /\ [][Next]_vars

\* ------------------------------------------- the guard over a persisted store

\* The store lives on disk (.data) and outlives the process: what a start
\* can find under sessions/deadbeef and users/u1, left by an earlier run or
\* damaged since (bytes that are no record, or the record of the other type),
\* a Session's expiry within the clock values or far beyond them either way.
OldSession == serialize_session([user_id |-> "u1", expires |-> 2, raw_jwt |-> Utf8("old")])
FarSession ==
    serialize_session([user_id |-> "u1", expires |-> "1099511627776", raw_jwt |-> Utf8("old")])
PastSession ==
    serialize_session([user_id |-> "u1", expires |-> "-2147483649", raw_jwt |-> Utf8("old")])
OldUser == serialize_user([user_id |-> "u1", email |-> "a@x"])
PersistedStores ==
    {EmptyStore,
     Put(EmptyStore, make_key("sessions/", "deadbeef"), Utf8("garbage")),
     Put(EmptyStore, make_key("sessions/", "deadbeef"), OldSession),
     Put(Put(EmptyStore, make_key("sessions/", "deadbeef"), OldSession),
         make_key("users/", "u1"), Utf8("garbage")),
     Put(Put(EmptyStore, make_key("sessions/", "deadbeef"), OldSession),
         make_key("users/", "u1"), OldSession),
     Put(Put(EmptyStore, make_key("sessions/", "deadbeef"), OldSession),
         make_key("users/", "u1"), serialize_user([user_id |-> "u1", email |-> "€"])),
     Put(Put(EmptyStore, make_key("sessions/", "deadbeef"), OldSession),
         make_key("users/", "u1"), OldUser),
     Put(Put(EmptyStore, make_key("sessions/", "deadbeef"), FarSession),
         make_key("users/", "u1"), OldUser),
     Put(Put(EmptyStore, make_key("sessions/", "deadbeef"), PastSession),
         make_key("users/", "u1"), OldUser)}

InitStore ==
    /\ phase = "boot"
    /\ now = 0
    /\ db \in PersistedStores
    /\ cookie = None
    /\ pc = [w \in Workers |-> "idle"]
    /\ req = [w \in Workers |-> NoReq]
    /\ last = NoLast
    /\ validated = {}
    /\ userWrites = [u \in UserIds |-> 0]
    /\ interleaved = FALSE
    /\ guard = NoGuard
    /\ nreq = 0

StoreNext ==
    \/ \E secret \in BOOLEAN, cert \in BootOutcomes : Boot(secret, cert)
    \/ Tick
    \/ \E c \in SessionCookies, io \in GuardSessionIo : GuardBegin(c, io)
    \/ GuardClock
    \/ \E io \in GuardUserIo : GuardUser(io)

SpecStore == InitStore /\ [][StoreNext]_vars

\* -------------------------------------------------- the validator by itself

\* decode_and_validate_jwt applied to a token at the current clock value;
\* the record keeps the token, the clock value, the result and its payload.
Validate(jwt) ==
    /\ phase = "serving"
    /\ LET v == decode_and_validate_jwt(jwt, client_id, auth0_domain, now) IN
       last' = [NoLast EXCEPT !.kind = "validate", !.tok = jwt, !.at = now,
                              !.status = v.tag, !.payload = v.payload]
    /\ UNCHANGED <<phase, now, db, cookie, pc, req, validated, userWrites, interleaved, nreq, guard>>

JwtNext ==
    \/ \E secret \in BOOLEAN, cert \in BootOutcomes : Boot(secret, cert)
    \/ Tick
    \/ \E t \in JwtInputs : Validate(t.raw)

SpecJwt == Init /\ [][JwtNext]_vars

\* ------------------------------------------------------------------ claims

\* The keys of the store that hold Session records: all but the key
\* material and the users/ keys.
SessionKeys(store) ==
    DOMAIN store \ ({"jwt_pub_key_pem", "jwt_pub_key_der", "jwt_cert_der"}
                    \cup {make_key("users/", u) : u \in UserIds \cup {""}})

\* A step in which a run of the User guard returns: one in flight ends, or
\* one ends in the step that starts it.
GuardEnd ==
    \/ guard.pc # "idle" /\ guard'.pc = "idle"
    \/ /\ nreq' = nreq + 1 /\ guard.pc = "idle" /\ guard' = guard
       /\ pc' = pc /\ last'.kind = "guard"

\* A step in which a callback request ends without a redirect.
CallbackFails == last' # last /\ last'.kind = "callback" /\ last'.status # "Redirect:/loggedin"

\* Every Session record is keyed by the digest of a validated token.
C1_SessionsValidated ==
    \A k \in SessionKeys(db) :
        \E r \in validated : k = make_key("sessions/", hex_digest(r))
\* A step that writes a Session record is taken by a request holding the
\* validated token the record is keyed by; a step in which a callback fails
\* leaves the Session records as they are.
C1_WriteStep ==
    /\ \A k \in SessionKeys(db') :
          (k \notin DOMAIN db \/ db'[k] # db[k]) =>
             \E w \in Workers : /\ pc[w] = "session_set"
                                /\ req[w].tok \in validated
                                /\ k = make_key("sessions/", hex_digest(req[w].tok))
    /\ CallbackFails =>
          /\ SessionKeys(db') = SessionKeys(db)
          /\ \A k \in SessionKeys(db) : db'[k] = db[k]
\* C1: a Session record is in the store under sessions/<h> only if
\* decode_and_validate_jwt returned Ok for a token hashing to h before the
\* write; the record is written by a request holding that validated token,
\* and a callback that fails writes no Session record.
C1_SessionOnlyAfterValidation == []C1_SessionsValidated /\ [][C1_WriteStep]_vars
C1_Witness ==
    /\ SessionKeys(db) # {}
    /\ last.kind = "callback" /\ last.status # "Redirect:/loggedin"

\* What C2 asks of a run of the guard, read of the state in which the guard
\* returns.
C2_GuardStep ==
    GuardEnd =>
      LET c == last'.cookie_in
          sk == make_key("sessions/", c.v)
          sess == deserialize_session(db[sk]).v
          uk == make_key("users/", sess.user_id)
      IN
      /\ last'.status = "Success" =>
            /\ c.some /\ sk \in DOMAIN db /\ deserialize_session(db[sk]).ok
            /\ ~Leq(sess.expires, now)
            /\ uk \in DOMAIN db /\ deserialize_user(db[uk]).ok
            /\ last'.user = deserialize_user(db[uk]).v
      /\ (c.some /\ sk \in DOMAIN db /\ deserialize_session(db[sk]).ok /\ Leq(sess.expires, now))
            => last'.status = "Forward"
\* C2 as stated: the guard returns Success(u) only if the store holds a
\* Session under sessions/<cookie> with expires > now and a User under
\* users/<its user_id>, and u is that record; when now >= expires it
\* returns Forward.
C2_GuardSound == [][C2_GuardStep]_vars

\* A guard is past the expiry test only with a Session that was unexpired
\* at the clock value the guard read, which is no later than now.
C2_PastExpiryTest ==
    guard.pc = "user" =>
        /\ ~Leq(guard.sess.expires, guard.at)
        /\ guard.began <= guard.at /\ guard.at <= now
\* What C2 asks of a run of the guard, read of the guard's own three reads.
C2_ReadsStep ==
    /\ (GuardEnd /\ last'.status = "Success") =>
          LET c == last'.cookie_in
              sk == make_key("sessions/", c.v)
              uk == make_key("users/", guard.sess.user_id)
          IN
          /\ guard.pc = "user" /\ c = guard.cookie_in /\ last'.at = guard.at
          /\ c.some /\ sk \in DOMAIN db /\ deserialize_session(db[sk]).ok
          /\ deserialize_session(db[sk]).v = guard.sess
          /\ ~Leq(guard.sess.expires, guard.at)
          /\ uk \in DOMAIN db /\ deserialize_user(db[uk]).ok
          /\ last'.user = deserialize_user(db[uk]).v
    /\ (guard.pc = "clock" /\ guard' # guard /\ Leq(guard.sess.expires, now)) =>
          /\ guard'.pc = "idle"
          /\ last'.kind = "guard" /\ last'.status = "Forward"
          /\ last'.cookie_in = guard.cookie_in
\* C2, amended: the guard returns Success(u) only if the store holds a
\* Session under sessions/<cookie> whose expires is greater than the clock
\* value the guard read, and, at the guard's read of it, a User under
\* users/<its user_id>, and u is that record; when the clock value the
\* guard reads is >= expires it returns Forward.
C2_GuardSoundAtReads == []C2_PastExpiryTest /\ [][C2_ReadsStep]_vars
C2_Witness ==
    /\ last.kind = "guard" /\ last.status = "Success" /\ last.user # NoUser
    /\ last.at < now

\* C3: after a callback request in which the browser presented a state
\* cookie, the state cookie is cleared, whatever the outcome.
C3_StateCookieCleared ==
    (last.kind = "callback" /\ last.cookie_in.some) => ~cookie.some

\* C4: a state cookie that is present but differs from the state parameter
\* yields Forbidden, an absent one BadRequest; neither outcome arises in the
\* other case, and the comparison is exact.
C4_StateCheckOutcomes ==
    last.kind = "callback" =>
        /\ (last.cookie_in.some /\ last.cookie_in.v # last.state_q) => last.status = "Forbidden"
        /\ ~last.cookie_in.some => last.status = "BadRequest"
        /\ last.status = "Forbidden" => (last.cookie_in.some /\ last.cookie_in.v # last.state_q)
        /\ (last.cookie_in.some /\ last.cookie_in.v = last.state_q)
              => last.status \notin {"Forbidden", "BadRequest"}
C4_Witness ==
    /\ last.kind = "callback" /\ last.status = "Forbidden"
    /\ last.cookie_in.some /\ last.cookie_in.v # last.state_q
    /\ Lower(last.cookie_in.v) = Lower(last.state_q)

\* C5: every Session record in the store has expires equal to the exp claim
\* of the validated token whose digest is its key.
C5_ExpiresIsExp ==
    \A k \in SessionKeys(db) :
        \E r \in validated :
            /\ k = make_key("sessions/", hex_digest(r))
            /\ deserialize_session(db[k]).ok
            /\ JwtOf(r).json.exp.t = "int"
            /\ deserialize_session(db[k]).v.expires = JwtOf(r).json.exp.i
C5_Witness ==
    /\ Cardinality(SessionKeys(db)) >= 2
    /\ \E k1, k2 \in SessionKeys(db) :
          deserialize_session(db[k1]).v.expires # deserialize_session(db[k2]).v.expires

\* What C6 asks of a run of the guard that follows a login.
C6_LoginStep ==
    (/\ GuardEnd /\ (guard.pc = "idle" \/ guard.began = now)
     /\ last.kind = "callback" /\ last.status = "Redirect:/loggedin" /\ last.at = now
     /\ last'.cookie_in = last.cookie_out /\ last'.io = "ok")
    => /\ last'.status = "Success"
       /\ last'.user.user_id = JwtOf(last.tok).json.user_id.s
\* C6: a callback that stores a Session for a validated token, followed at
\* the same clock value by a guard check carrying the issued session cookie
\* (its store reads succeeding), yields Success with the token's user_id.
C6_LoginThenGuard == [][C6_LoginStep]_vars

\* C7: for every token whose exp is less than or equal to the current time,
\* decode_and_validate_jwt fails with Expired.  Stated here for the tokens
\* that reach the expiry test (the signature verifies and the five claims
\* parse), where the claim and the check order of the validator agree on
\* what is to be reported.
C7_ExpiredRejected ==
    (/\ last.kind = "validate"
     /\ decode(last.tok).ok /\ from_json(decode(last.tok).json).tag = "Ok"
     /\ from_json(decode(last.tok).json).payload.exp <= last.at)
    => last.status = "Expired"

\* The calls of get_or_create_user so far ran one after another: none did
\* its db.get while another stood between its db.get and its db.set.
OneAfterAnother == ~interleaved

\* A call that has returned holds the user_id asked for and the stored record.
C8_ReturnsStored ==
    OneAfterAnother =>
        \A w \in Workers :
            pc[w] = "session_set" =>
                /\ req[w].user.user_id = req[w].payload.user_id
                /\ make_key("users/", req[w].payload.user_id) \in DOMAIN db
                /\ db[make_key("users/", req[w].payload.user_id)] = serialize_user(req[w].user)
\* No step changes a stored User record.
C8_Frozen ==
    OneAfterAnother' =>
        \A u \in UserIds :
            make_key("users/", u) \in DOMAIN db =>
                /\ make_key("users/", u) \in DOMAIN db'
                /\ db'[make_key("users/", u)] = db[make_key("users/", u)]
\* C8: with the calls of get_or_create_user running one after another, a
\* call returns a record with the user_id asked for, which is the stored
\* record, and no call changes a stored record: a later call with another
\* email returns the first email.
C8_Idempotent == []C8_ReturnsStored /\ [][C8_Frozen]_vars
C8_Witness ==
    /\ OneAfterAnother
    /\ \E w \in Workers :
          /\ pc[w] = "session_set"
          /\ req[w].payload.email # req[w].user.email
          /\ userWrites[req[w].payload.user_id] = 1

\* C9: when two logins for the same unseen user_id interleave, the User
\* record is written at most once and both requests return the same User.
C9_CreatedOnce ==
    /\ \A u \in UserIds : userWrites[u] <= 1
    /\ \A w1, w2 \in Workers :
          (/\ pc[w1] = "session_set" /\ pc[w2] = "session_set"
           /\ req[w1].payload.user_id = req[w2].payload.user_id)
          => req[w1].user = req[w2].user

\* C10: the guard's outcome is Success or Forward for every cookie value and
\* every store content, never Failure or a panic.
C10_GuardNeverFails ==
    last.kind = "guard" => last.status \in {"Success", "Forward"}

\* A finished callback request whose state parameter matched its state
\* cookie, whose token request returned a token, and whose token reached
\* decode_and_validate_jwt and passes it at the clock value the request read.
ValidFlow ==
    /\ last.kind = "callback"
    /\ last.cookie_in = Some(last.state_q)
    /\ last.exch \in RawTokens /\ last.tok = last.exch
    /\ decode_and_validate_jwt(last.exch, client_id, auth0_domain, last.at).tag = "Ok"

\* What C11 promises of such a request: the Session is in the store under
\* sessions/<k> for k the digest of the token, the response sets the session
\* cookie to k with Secure, HttpOnly and path /, and redirects to /loggedin.
LoggedIn ==
    LET k == hex_digest(last.exch) IN
    /\ last.status = "Redirect:/loggedin"
    /\ last.cookie_out = Some(k)
    /\ last.attrs = {"Secure", "HttpOnly", "Path=/"}
    /\ ("sessions/" \o k) \in DOMAIN db
    /\ deserialize_session(db["sessions/" \o k]).ok
    /\ deserialize_session(db["sessions/" \o k]).v.raw_jwt = Utf8(last.exch)

\* C11 as stated: when the callback's state matches the state cookie, the
\* token exchange succeeds and the ID token validates, the callback stores
\* the Session under sessions/<k>, issues the session cookie k (Secure,
\* HttpOnly, path /) and redirects to /loggedin.
C11_ValidFlowLogsIn == ValidFlow => LoggedIn

\* C11, amended: the same, for a request whose store reads and writes all
\* succeed.
C11_ValidFlowLogsInIo == (ValidFlow /\ last.io = "ok") => LoggedIn
C11_Witness == ValidFlow /\ last.io = "ok" /\ LoggedIn

\* C12: once the state check has passed, a callback whose ID token is
\* structurally malformed (undecodable, bad signature, a required claim
\* missing) responds with BadRequest, one whose token is expired or has a
\* wrong audience or issuer with Unauthorized, and any other failure with
\* InternalServerError.  Stated of the requests that end with a response
\* (those that abort are the matter of C13).
C12_StatusMapping ==
    (/\ last.kind = "callback" /\ last.cookie_in = Some(last.state_q)
     /\ last.tok # "" /\ last.status # "Panic")
    => LET tag == decode_and_validate_jwt(last.tok, client_id, auth0_domain, last.at).tag IN
       /\ tag = "MalformedJWT" => last.status = "BadRequest"
       /\ tag \in {"Expired", "AudienceMismatch", "IssuerMismatch"}
             => last.status = "Unauthorized"
       /\ (tag = "Ok" /\ last.status # "Redirect:/loggedin")
             => last.status = "InternalServerError"

\* C13: every callback request ends with a Redirect or an HTTP Status: a
\* failed token request, an unparsable token response, a claim of the wrong
\* JSON type or a failed store operation never aborts the request.
C13_CallbackNeverPanics ==
    last.kind = "callback" => last.status # "Panic"

\* The key material populate_certs stores.
KeyMaterial == {"jwt_pub_key_pem", "jwt_pub_key_der", "jwt_cert_der"}

\* While the process serves, the key material is in the store; a process
\* that aborted at attach has served no request.
C14_ServingHasKeys ==
    /\ phase = "serving" => KeyMaterial \subseteq DOMAIN db
    /\ phase = "aborted" => /\ nreq = 0 /\ last.kind = "boot"
                            /\ \A w \in Workers : pc[w] = "idle"
                            /\ guard.pc = "idle"
\* A step of a handler (a request starts, or a callback moves on) is taken
\* by a serving process holding the key material; the step that leaves boot
\* starts serving only when the secret was read and populate_certs
\* succeeded; an aborted process stays aborted.
C14_Step ==
    /\ (nreq' # nreq \/ pc' # pc \/ cookie' # cookie \/ guard' # guard)
          => (phase = "serving" /\ "jwt_pub_key_pem" \in DOMAIN db)
    /\ (phase = "boot" /\ phase' # "boot")
          => /\ last'.kind = "boot"
             /\ (phase' = "serving") = (last'.io = "ok")
             /\ (phase' = "aborted") = (last'.io # "ok")
    /\ phase = "aborted" => phase' = "aborted"
    /\ phase = "serving" => phase' = "serving"
\* C14: certificate provisioning completes before any request is served: no
\* handler runs before populate_certs has stored the key material, and if
\* reading the client secret or provisioning fails the process never starts
\* serving.
C14_ProvisionedBeforeServing == []C14_ServingHasKeys /\ [][C14_Step]_vars
C14_Witness ==
    /\ last.kind = "callback" /\ last.tok # ""
    /\ KeyMaterial \subseteq DOMAIN db

\* The claims of the token the validator was last tried on.
LastClaims == JwtOf(last.tok).json

\* The validator was tried on a token with a valid signature, all five
\* claims present, exp strictly after the clock value, aud the expected
\* audience and iss "https://<expected domain>/".
ValidToken ==
    /\ last.kind = "validate"
    /\ JwtOf(last.tok).sig
    /\ \A c \in {"email", "user_id", "exp", "iss", "aud"} : LastClaims[c].t # "absent"
    /\ LastClaims.exp.t = "int" /\ LastClaims.exp.i > last.at
    /\ LastClaims.aud = JStr(client_id)
    /\ LastClaims.iss = JStr("https://" \o auth0_domain \o "/")

\* The validator returned Ok with a payload equal to the token's claims.
PayloadUnchanged ==
    /\ last.status = "Ok"
    /\ JStr(last.payload.email) = LastClaims.email
    /\ JStr(last.payload.user_id) = LastClaims.user_id
    /\ JInt(last.payload.exp) = LastClaims.exp
    /\ JStr(last.payload.iss) = LastClaims.iss
    /\ JStr(last.payload.aud) = LastClaims.aud

\* C15: for every token with a valid signature, all five claims present,
\* exp strictly after the current time, aud the expected audience and iss
\* "https://<expected domain>/", decode_and_validate_jwt returns Ok with a
\* payload whose five fields equal the token's claims.
C15_ValidAccepted == ValidToken => PayloadUnchanged

\* What C16 has the validator report for a token with claims j at clock
\* value t: the first failing check in the order signature/structure (the
\* signature verifies and the five claims are there, as strings and an
\* integer), expiry, audience, issuer.
FirstFailingCheck(sig, j, t) ==
    IF \/ ~sig
       \/ \E c \in {"email", "user_id", "iss", "aud"} : j[c].t # "str"
       \/ j.exp.t # "int"
    THEN "MalformedJWT"
    ELSE IF j.exp.i <= t THEN "Expired"
    ELSE IF j.aud.s # client_id THEN "AudienceMismatch"
    ELSE IF j.iss.s # "https://" \o auth0_domain \o "/" THEN "IssuerMismatch"
    ELSE "Ok"

\* C16: decode_and_validate_jwt reports the first failing check in the order
\* signature/structure, expiry, audience, issuer: MalformedJWT if the
\* signature or structure is bad, otherwise Expired if expired, otherwise
\* AudienceMismatch, otherwise IssuerMismatch; a token with a bad signature
\* never yields a payload.
C16_FirstFailingCheck ==
    last.kind = "validate" =>
        /\ last.status = FirstFailingCheck(JwtOf(last.tok).sig, LastClaims, last.at)
        /\ ~JwtOf(last.tok).sig => (last.status = "MalformedJWT" /\ last.payload = NoPayload)

\* A step that starts a callback request: it ends at once, or goes on to
\* its token request.
CallbackBeginStep ==
    nreq' = nreq + 1 /\ guard' = guard /\ (pc' # pc \/ last'.kind = "callback")

\* Every token request was sent by a callback whose state cookie was present
\* and equal to its state parameter, and so is every callback in flight.
C17_ExchangeNeedsState ==
    /\ (last.kind = "callback" /\ last.exch # "") => last.cookie_in = Some(last.state_q)
    /\ \A w \in Workers : pc[w] # "idle" => req[w].cookie_in = Some(req[w].state_q)
\* A store write of a serving process is the write of a callback in flight
\* that presented a matching state cookie; a callback that starts without
\* one sends no token request, writes nothing and ends at once.
C17_Step ==
    /\ (phase = "serving" /\ db' # db)
          => \E w \in Workers : /\ pc[w] \in {"user_set", "session_set"} /\ pc'[w] # pc[w]
                                /\ req[w].cookie_in = Some(req[w].state_q)
    /\ (CallbackBeginStep /\ pc' = pc /\ last'.cookie_in # Some(last'.state_q))
          => (last'.exch = "" /\ last'.tok = "" /\ db' = db)
    /\ (CallbackBeginStep /\ pc' # pc) => cookie.some
\* C17: no token-exchange request is sent and no store write (User or
\* Session) happens in a callback unless a state cookie is present and
\* equals the callback's state query parameter.
C17_NoExchangeWithoutState == []C17_ExchangeNeedsState /\ [][C17_Step]_vars
C17_Witness ==
    /\ last.kind = "callback" /\ last.status \in {"Forbidden", "BadRequest"}
    /\ last.exch = ""
    /\ SessionKeys(db) # {}

\* The state parameter of the callback request a step starts.
BegunState ==
    IF pc' # pc THEN req'[CHOOSE w \in Workers : pc'[w] # pc[w]].state_q ELSE last'.state_q

\* What C18 asks of a callback that starts right after another callback
\* that passed the state check with the same state (no request to /auth0,
\* nor any other, in between): it ends with BadRequest, no token request
\* sent.
C18_Step ==
    (/\ last.kind = "callback" /\ last.cookie_in = Some(last.state_q)
     /\ CallbackBeginStep /\ BegunState = last.state_q)
    => (pc' = pc /\ last'.status = "BadRequest" /\ last'.exch = "")
\* C18: a CSRF state value is single-use: after a callback has passed the
\* state check with state s, a second callback from the same browser with
\* the same s and no new visit to /auth0 in between is rejected with
\* BadRequest and proceeds to no token exchange.
C18_StateSingleUse == [][C18_Step]_vars

\* The session cookie of a guarded request names a stored Session that is
\* expired at the clock value t.
NamesExpired(c, store, t) ==
    /\ c.some /\ make_key("sessions/", c.v) \in DOMAIN store
    /\ deserialize_session(store[make_key("sessions/", c.v)]).ok
    /\ Leq(deserialize_session(store[make_key("sessions/", c.v)]).v.expires, t)

\* A Session that a guard found expired is in the store and expired still.
C19_ExpiredStays ==
    (/\ last.kind = "guard" /\ last.status = "Forward"
     /\ NamesExpired(last.cookie_in, db, last.at))
    => NamesExpired(last.cookie_in, db, now)
\* What C19 asks of a step of the guard: the store is as it was; a guard
\* whose clock read finds its Session expired returns Forward and the
\* Session is in the store, expired, afterwards; a guard that returns
\* Success did not read a Session that was expired when it read it.
C19_GuardStep ==
    /\ (guard' # guard \/ GuardEnd) => db' = db
    /\ (guard.pc = "clock" /\ guard' # guard
          /\ NamesExpired(guard.cookie_in, db, now))
          => /\ last'.kind = "guard" /\ last'.status = "Forward"
             /\ NamesExpired(guard.cookie_in, db', now')
    /\ (GuardEnd /\ last'.status = "Success")
          => ~NamesExpired(last'.cookie_in, db, guard.began)
C20_SessionsHaveUsers ==
    \A k \in SessionKeys(db) :
        LET sess == deserialize_session(db[k]) IN
        /\ sess.ok
        /\ ("users/" \o sess.v.user_id) \in DOMAIN db
        /\ deserialize_user(db["users/" \o sess.v.user_id]).ok
        /\ deserialize_user(db["users/" \o sess.v.user_id]).v.user_id = sess.v.user_id
C20_Witness ==
    /\ Cardinality(SessionKeys(db)) >= 2
    /\ \E u \in UserIds : userWrites[u] >= 2

====
